---- MODULE Spec2Model ----
(***************************************************************************)
(* Interaction response-state tracking of sparkle_convenience.             *)
(*                                                                         *)
(* One InteractionHandle is shared by NumClones clones (the struct derives *)
(* Clone; `responded` and `last_message_id` are Arc'd atomics, so every    *)
(* clone reads and writes the same two cells).  Each clone runs one call   *)
(* at a time.  A call has a single `.await` and is split there:            *)
(*   entry        - load `responded`, pick the branch, validate, hand the  *)
(*                  request to the HTTP collaborator (or return early)     *)
(*   continuation - the collaborator answers; `?`; `set_responded(true)`;  *)
(*                  the value returned                                     *)
(* The answer touches nothing another clone reads, so it is taken together *)
(* with the continuation it resumes.  Steps of different clones interleave *)
(* freely.                                                                 *)
(*                                                                         *)
(* check_permissions is synchronous and pure; PermSpec puts it between     *)
(* response calls on handles built for every interaction.  The error       *)
(* classifier (CombinedUserError::from_anyhow_err, from_http_err,          *)
(* with_permissions) is a set of pure functions; ClassifySpec applies them *)
(* to errors of every shape and to their own results.                      *)
(***************************************************************************)
EXTENDS Integers, Naturals, Sequences, FiniteSets, TLC

VARIABLES
    kind,             \* InteractionHandle.kind (immutable after construction)
    app_permissions,  \* InteractionHandle.app_permissions (immutable after construction)
    responded,        \* InteractionHandle.responded : Arc<AtomicBool>
    last_message_id,  \* InteractionHandle.last_message_id : Arc<AtomicU64>, 0 if None
    frame,            \* per clone: the call it is inside of, if any
    last,             \* the call that returned last: the answer it got, its result
    ncalls,           \* number of calls started so far (bounded by MaxCalls)
    created,          \* number of create_response requests handed to the collaborator
    created_ok,       \* number of create_response requests it accepted
    succeeded,        \* some response call has returned Ok
    next_id,          \* id the collaborator gives the next followup message it creates
    checked,          \* the check_permissions call made last: its argument, its result
    err,              \* the anyhow::Error given to the classifier last
    user_err,         \* the CombinedUserError<C> the classifier returned last
    applied,          \* the classifier function applied last, its argument
    handling,         \* per clone: the handle_error call it is inside of, if any
    logged,           \* what the handle_error call made last gave to Bot::log
    tasks,            \* the tasks delete_after spawned, in the order of the calls
    results           \* what the delete_after calls returned, in the order of the calls

vars == <<kind, app_permissions, responded, last_message_id, frame, last, ncalls,
          created, created_ok, succeeded, next_id, checked, err, user_err, applied,
          handling, logged, tasks, results>>

\* The state of handle_error and handle_error_no_custom.
error_handler == <<handling, logged>>

\* The state of delete_after.
deleter == <<tasks, results>>

\* The state of the error classifier.
classifier == <<err, user_err, applied>>

\* What the response operations neither read nor write.
beside_responses == <<app_permissions, checked, classifier>>

(* ------------------------------ bounds --------------------------------- *)

NumClones == 2

MaxCalls == 3

MaxDeletes == 3

Clones == 1..NumClones

(* ------------------------------ domains -------------------------------- *)

\* twilight's InteractionType.  The handle compares `kind` with MessageComponent
\* and ModalSubmit only; ApplicationCommand stands for the kinds it never names
\* (Ping, ApplicationCommand, ApplicationCommandAutocomplete).
InteractionType == {"ApplicationCommand", "MessageComponent", "ModalSubmit"}

DeferVisibility == {"Ephemeral", "Visible"}

DeferBehavior == {"Followup", "Update"}

\* twilight's Permissions is a set of flags; two of them stand for all.
PermissionFlags == {"SEND_MESSAGES", "MANAGE_MESSAGES"}

Permissions == SUBSET PermissionFlags

\* Permissions::all()
Permissions_all == PermissionFlags

\* Option<Permissions>
None == [some |-> FALSE, val |-> {}]

Some(val) == [some |-> TRUE, val |-> val]

OptionPermissions == {None} \cup {Some(p) : p \in Permissions}

\* Option::unwrap_or
unwrap_or(option, default) == IF option.some THEN option.val ELSE default

\* The fields of the inbound Interaction that Bot::interaction_handle reads.
Interaction == [kind : InteractionType, app_permissions : OptionPermissions]

\* An interaction received outside a guild carries no app permissions.
DmInteraction == {i \in Interaction : i.app_permissions = None}

\* UserError (deprecated): MissingPermissions(Option<Permissions>) | Ignore
UserError_MissingPermissions(option) == [variant |-> "MissingPermissions", permissions |-> option]

UserError_Ignore == [variant |-> "Ignore", permissions |-> None]

UserError ==
    {UserError_MissingPermissions(option) : option \in OptionPermissions}
        \cup {UserError_Ignore}

\* Result<(), UserError>
CheckOk == [ok |-> TRUE, err |-> UserError_Ignore]

CheckErr(user_error) == [ok |-> FALSE, err |-> user_error]

\* No check_permissions call has been made.
NotChecked == [called |-> FALSE, required |-> {}, result |-> CheckOk]

(* -------------------------- classifier domains ------------------------- *)

UnknownMessageCode == 10008

MissingAccessCode == 50001

FailedDmCode == 50007

MissingPermissionsCode == 50013

ReactionBlockedCode == 90001

\* The caller's custom error type C, by its values.
CustomError == {"TooSlay", "TooSlow"}

NoCustom == "-"

\* CombinedUserError<C>
MissingPermissions(option) ==
    [variant |-> "MissingPermissions", permissions |-> option, custom |-> NoCustom]

Custom(c) == [variant |-> "Custom", permissions |-> None, custom |-> c]

\* Mutant of Internal: the fallback is not one of the four variants.
Internal_unclassified ==
    [variant |-> "Unclassified", permissions |-> None, custom |-> NoCustom]

Internal == [variant |-> "Internal", permissions |-> None, custom |-> NoCustom]

Ignore == [variant |-> "Ignore", permissions |-> None, custom |-> NoCustom]

CombinedUserError ==
    {MissingPermissions(option) : option \in OptionPermissions}
        \cup {Custom(c) : c \in CustomError} \cup {Internal, Ignore}

\* GeneralApiError codes: the five the table names, and two it does not.
ApiErrorCodes ==
    {UnknownMessageCode, MissingAccessCode, FailedDmCode, MissingPermissionsCode,
     ReactionBlockedCode, 0, 40001}

\* twilight_http::Error, by what from_http_err matches on: whether its kind is
\* ErrorType::Response carrying ApiError::General, and the code if it is.
HttpError ==
    {[general |-> FALSE, code |-> 0]} \cup {[general |-> TRUE, code |-> c] : c \in ApiErrorCodes}

\* The result of a downcast_ref: {} for None, {v} for Some(v).
Downcast(values) == {{}} \cup {{v} : v \in values}

\* anyhow::Error, by what downcast_ref finds in it for each of the types the
\* classifiers ask for: CombinedUserError<C>, C and twilight_http::Error
\* (from_anyhow_err), UserError (ErrorExt::user).  An error built with
\* `.context(..)` downcasts to the context's type as well as to the types
\* below it, so more than one of them can be found in one error; a plain
\* message error has none.
AnyhowError ==
    [user : Downcast(CombinedUserError), custom : Downcast(CustomError),
     http : Downcast(HttpError), legacy : Downcast(UserError)]

\* anyhow!("..."): a message error
MessageError == [user |-> {}, custom |-> {}, http |-> {}, legacy |-> {}]

\* anyhow!(user_err): the error whose only type is CombinedUserError<C>
anyhow_new(value) == [user |-> {value}, custom |-> {}, http |-> {}, legacy |-> {}]

\* UserError::..(..).into(): the error whose only type is UserError
anyhow_from_user_error(value) ==
    [user |-> {}, custom |-> {}, http |-> {}, legacy |-> {value}]

\* The type argument `Custom` of ErrorExt::internal and handle_error: the
\* caller's type C, or the marker NoCustomError (which no error is a value of).
CustomTypes == {"C", "NoCustomError"}

\* self.downcast_ref::<Custom>()
downcast_ref_custom(e, custom_type) == IF custom_type = "C" THEN e.custom ELSE {}

\* The value a successful downcast_ref refers to.
Ref(found) == CHOOSE v \in found : TRUE

NotApplied == [fn |-> "none", wrapped |-> FALSE, permissions |-> {}]

\* The part of a Reply the handle's control flow can depend on: whether the
\* payload passes twilight's request validation, and the update_last flag.
Reply == [valid : BOOLEAN, update_last : BOOLEAN]

\* Error codes the collaborator may answer with (0: a code outside the table).
HttpErrorCodes == {MissingPermissionsCode, MissingAccessCode, 0}

\* What the collaborator may answer to a request.
HttpResponses ==
    {[ok |-> TRUE, code |-> 0]} \cup {[ok |-> FALSE, code |-> c] : c \in HttpErrorCodes}

NoResponse == [ok |-> FALSE, code |-> 0]

NoArgs == [visibility |-> "-", behavior |-> "-", valid |-> TRUE, update_last |-> FALSE]

DeferArgs(visibility, behavior) ==
    [visibility |-> visibility, behavior |-> behavior, valid |-> TRUE, update_last |-> FALSE]

ReplyArgs(reply) ==
    [visibility |-> "-", behavior |-> "-", valid |-> reply.valid,
     update_last |-> reply.update_last]

NoRequest == [verb |-> "none", kind |-> "-", data |-> "-"]

(* Results of a call: Result<(), Error> and Result<Option<Response<Message>>, Error> *)
Pending == [tag |-> "pending", x |-> 0]

OkUnit == [tag |-> "Ok", x |-> 0]

OkNone == [tag |-> "OkNone", x |-> 0]

OkSome(msg) == [tag |-> "OkSome", x |-> msg]

ErrAlreadyResponded == [tag |-> "AlreadyResponded", x |-> 0]

ErrRequestValidation == [tag |-> "RequestValidation", x |-> 0]

ErrHttp(code) == [tag |-> "Http", x |-> code]

ErrMessageValidation == [tag |-> "MessageValidation", x |-> 0]

IsOk(result) == result.tag \in {"Ok", "OkNone", "OkSome"}

\* The id of the message the initial response created (what update_response
\* edits and returns); followup messages get the ids after it.
OriginalMessageId == 1

\* The frame of a clone that is not inside a call.
IdleFrame ==
    [pc |-> "idle", op |-> "none", args |-> NoArgs, req |-> NoRequest, result |-> Pending]

\* A clone that is not inside handle_error or handle_error_no_custom.
NotHandling ==
    [on |-> FALSE, fn |-> "none", custom_type |-> "NoCustomError", error |-> MessageError]

(* ------------------------------ state ---------------------------------- *)

\* Bot::interaction_handle: kind and app_permissions are taken from the
\* interaction, responded = false, last_message_id = 0
interaction_handle(interaction) ==
    /\ kind = interaction.kind
    /\ app_permissions = unwrap_or(interaction.app_permissions, Permissions_all)
    /\ responded = FALSE
    /\ last_message_id = 0

\* A handle was built for an interaction; nothing has been called on it.
Constructed(interactions) ==
    /\ \E interaction \in interactions : interaction_handle(interaction)
    /\ checked = NotChecked
    /\ err = MessageError
    /\ user_err = Internal
    /\ applied = NotApplied
    /\ frame = [t \in Clones |-> IdleFrame]
    /\ last = [resp |-> NoResponse, result |-> Pending]
    /\ ncalls = 0
    /\ created = 0
    /\ created_ok = 0
    /\ succeeded = FALSE
    /\ next_id = OriginalMessageId + 1
    /\ handling = [t \in Clones |-> NotHandling]
    /\ logged = {}
    /\ tasks = <<>>
    /\ results = <<>>

\* The response operations never read app_permissions: the handle is one built
\* for an interaction that carried none.
Init == Constructed(DmInteraction)

(* --------------------------- shared cells ------------------------------ *)

\* Mutant of self_responded: the flag is never seen set.
self_responded_stale == FALSE

\* fn responded(&self) -> bool : self.responded.load(Acquire)
self_responded == responded

\* Mutant of set_responded: the store is lost.
set_responded_lost(val) == responded' = responded

\* fn set_responded(&self, val) : self.responded.store(val, Release)
set_responded(val) == responded' = val

(* ------------------------ the frame of a call -------------------------- *)

\* A clone may start a call when it is not inside one.
Idle(t) == frame[t].pc = "idle" /\ ncalls < MaxCalls

\* The call is about to return `result` before any request is made (an early
\* `return Err`, or a `?` on a validation error): nothing is sent, no cell is
\* written.
ReturnEarly(t, op, args, result) ==
    /\ frame' = [frame EXCEPT ![t] =
                    [pc |-> "early", op |-> op, args |-> args, req |-> NoRequest,
                     result |-> result]]
    /\ ncalls' = ncalls + 1
    /\ UNCHANGED <<kind, responded, last_message_id, last, created, created_ok,
                   succeeded, next_id, beside_responses>>

\* The call hands `req` to the HTTP collaborator and suspends at its `.await`.
Send(t, op, args, req) ==
    /\ frame' = [frame EXCEPT ![t] =
                    [pc |-> "await", op |-> op, args |-> args, req |-> req,
                     result |-> Pending]]
    /\ ncalls' = ncalls + 1
    /\ created' = created + (IF req.verb = "create_response" THEN 1 ELSE 0)
    /\ UNCHANGED <<kind, responded, last_message_id, last, created_ok, succeeded,
                   next_id, beside_responses>>

\* The call returns `result` to its caller; `resp` is the answer it got.
Return(t, resp, result) ==
    /\ frame' = [frame EXCEPT ![t] = IdleFrame]
    /\ last' = [resp |-> resp, result |-> result]
    /\ succeeded' = (succeeded \/ IsOk(result))
    /\ UNCHANGED <<kind, ncalls, created, beside_responses>>

\* The caller of clone t receives the result of a call that returned early.
Returned(t) ==
    /\ frame[t].pc = "early"
    /\ Return(t, NoResponse, frame[t].result)
    /\ UNCHANGED <<responded, last_message_id, created_ok, next_id>>

(* ------------------------ the HTTP collaborator ------------------------ *)

ReturnsMessage(req) ==
    req.verb \in {"create_followup", "update_response", "update_followup", "create_message"}

\* create_followup and create_message create a message; update_response and
\* update_followup edit one that exists.
CreatesMessage(req) == req.verb \in {"create_followup", "create_message"}

\* The id of the message in the answer to the request of clone t: a fresh id
\* for a created followup, the id of the original response for update_response.
MessageId(t) == IF CreatesMessage(frame[t].req) THEN next_id ELSE OriginalMessageId

\* The collaborator answers the request of call `op` of clone t with `resp`,
\* which resumes the call.  A message it returns has a fresh non-zero id.
Resumed(t, op, resp) ==
    /\ frame[t].pc = "await"
    /\ frame[t].op = op
    /\ created_ok' = created_ok +
            (IF resp.ok /\ frame[t].req.verb = "create_response" THEN 1 ELSE 0)
    /\ next_id' = next_id + (IF resp.ok /\ CreatesMessage(frame[t].req) THEN 1 ELSE 0)

\* Mutant of HttpErrorResult: a permission error of the platform is classified.
HttpErrorResult_classified(resp) ==
    IF resp.code \in {MissingPermissionsCode, MissingAccessCode}
    THEN [tag |-> "MissingPermissions", x |-> 0]
    ELSE ErrHttp(resp.code)

\* impl From<twilight_http::Error> for Error (#[from]): Error::Http(err)
HttpErrorResult(resp) == ErrHttp(resp.code)

\* Mutant of AwaitOk: the awaited result is not checked.
AwaitUnchecked(resp) == TRUE

\* The `?` applied to the awaited result: the code after it runs only on Ok.
AwaitOk(resp) == resp.ok

\* Mutant of ReturnHttpError: the failed request is sent again instead of the
\* error being returned.
ReturnHttpError_retries(t, resp) ==
    /\ frame' = frame
    /\ created' = created + (IF frame[t].req.verb = "create_response" THEN 1 ELSE 0)
    /\ UNCHANGED <<kind, ncalls, last, succeeded, responded, last_message_id,
                   beside_responses>>

\* Mutant of ReturnHttpError: the failed call leaves a message id behind.
ReturnHttpError_stores_id(t, resp) ==
    /\ Return(t, resp, ErrHttp(resp.code))
    /\ last_message_id' = next_id
    /\ UNCHANGED responded

\* `.await?` failed: the error is converted by From<twilight_http::Error> and
\* returned; the rest of the function body is skipped.
ReturnHttpError(t, resp) ==
    /\ Return(t, resp, HttpErrorResult(resp))
    /\ UNCHANGED <<responded, last_message_id>>

(* ------------------------------ defer ---------------------------------- *)

\* Mutant of DeferKind: `behavior` is honored for every interaction kind.
DeferKind_any_kind(behavior) ==
    CASE behavior = "Followup" -> "DeferredChannelMessageWithSource"
      [] behavior = "Update" -> "DeferredUpdateMessage"

\* The response kind of a defer request.
DeferKind(behavior) ==
    IF kind = "MessageComponent"
    THEN CASE behavior = "Followup" -> "DeferredChannelMessageWithSource"
           [] behavior = "Update" -> "DeferredUpdateMessage"
    ELSE "DeferredChannelMessageWithSource"

\* flags: (visibility == Ephemeral).then_some(EPHEMERAL)
DeferFlags(visibility) ==
    IF visibility = "Ephemeral" THEN "EPHEMERAL" ELSE "no_flags"

\* defer_with_behavior, up to its `.await`
defer_with_behavior(t, visibility, behavior) ==
    /\ Idle(t)
    /\ IF self_responded
       THEN ReturnEarly(t, "defer_with_behavior", DeferArgs(visibility, behavior),
                        ErrAlreadyResponded)
       ELSE Send(t, "defer_with_behavior", DeferArgs(visibility, behavior),
                 [verb |-> "create_response", kind |-> DeferKind(behavior),
                  data |-> DeferFlags(visibility)])

\* Mutant of defer_with_behavior_resumed: `responded` is set in a copy of the
\* flag that the other clones do not read.
defer_with_behavior_resumed_unshared(t, resp) ==
    /\ Resumed(t, "defer_with_behavior", resp)
    /\ IF AwaitOk(resp)
       THEN /\ Return(t, resp, OkUnit)
            /\ UNCHANGED <<responded, last_message_id>>
       ELSE ReturnHttpError(t, resp)

\* defer_with_behavior, after its `.await`
defer_with_behavior_resumed(t, resp) ==
    /\ Resumed(t, "defer_with_behavior", resp)
    /\ IF AwaitOk(resp)
       THEN /\ set_responded(TRUE)
            /\ Return(t, resp, OkUnit)
            /\ UNCHANGED last_message_id
       ELSE ReturnHttpError(t, resp)

\* defer (deprecated): calls defer_with_behavior(ephemeral, Followup)
defer(t, ephemeral) == defer_with_behavior(t, ephemeral, "Followup")

\* defer_update_message (deprecated), up to its `.await`
defer_update_message(t) ==
    /\ Idle(t)
    /\ IF self_responded
       THEN ReturnEarly(t, "defer_update_message", NoArgs, ErrAlreadyResponded)
       ELSE Send(t, "defer_update_message", NoArgs,
                 [verb |-> "create_response", kind |-> "DeferredUpdateMessage",
                  data |-> "None"])

\* defer_update_message, after its `.await`
defer_update_message_resumed(t, resp) ==
    /\ Resumed(t, "defer_update_message", resp)
    /\ IF AwaitOk(resp)
       THEN /\ set_responded(TRUE)
            /\ Return(t, resp, OkUnit)
            /\ UNCHANGED last_message_id
       ELSE ReturnHttpError(t, resp)

(* ------------------------ reply, update_message ------------------------ *)

\* create_response_with_reply, up to its `.await`: no validation, one request
create_response_with_reply(t, op, reply, response_kind) ==
    Send(t, op, ReplyArgs(reply),
         [verb |-> "create_response", kind |-> response_kind, data |-> "reply"])

\* The response kind reply passes to create_response_with_reply.
ReplyInitialKind(reply) == "ChannelMessageWithSource"

\* The request reply builds when the interaction was already responded to.
ReplyFollowupVerb(reply) == "create_followup"

\* reply, up to its `.await`
reply(t, r) ==
    /\ Idle(t)
    /\ IF self_responded
       THEN IF r.valid
            THEN Send(t, "reply", ReplyArgs(r),
                      [verb |-> ReplyFollowupVerb(r), kind |-> "-", data |-> "reply"])
            ELSE ReturnEarly(t, "reply", ReplyArgs(r), ErrRequestValidation)
       ELSE create_response_with_reply(t, "reply", r, ReplyInitialKind(r))

\* Mutant of reply_resumed: the first response does not set `responded`.
reply_resumed_forgets(t, resp) ==
    /\ Resumed(t, "reply", resp)
    /\ IF ~AwaitOk(resp)
       THEN ReturnHttpError(t, resp)
       ELSE IF frame[t].req.verb = "create_response"
            THEN /\ Return(t, resp, OkNone)
                 /\ UNCHANGED <<responded, last_message_id>>
            ELSE /\ Return(t, resp, OkSome(MessageId(t)))
                 /\ UNCHANGED <<responded, last_message_id>>

\* reply, after its `.await`
reply_resumed(t, resp) ==
    /\ Resumed(t, "reply", resp)
    /\ IF ~AwaitOk(resp)
       THEN ReturnHttpError(t, resp)
       ELSE IF frame[t].req.verb = "create_response"
            THEN /\ set_responded(TRUE)
                 /\ Return(t, resp, OkNone)
                 /\ UNCHANGED last_message_id
            ELSE /\ Return(t, resp, OkSome(MessageId(t)))
                 /\ UNCHANGED <<responded, last_message_id>>

\* Mutant of update_message: the handle's state is not looked at, the message
\* update is always sent as an initial response.
update_message_unchecked(t, r) ==
    /\ Idle(t)
    /\ create_response_with_reply(t, "update_message", r, "UpdateMessage")

\* update_message, up to its `.await`
update_message(t, r) ==
    /\ Idle(t)
    /\ IF self_responded
       THEN IF r.valid
            THEN Send(t, "update_message", ReplyArgs(r),
                      [verb |-> "update_response", kind |-> "-", data |-> "reply"])
            ELSE ReturnEarly(t, "update_message", ReplyArgs(r), ErrRequestValidation)
       ELSE create_response_with_reply(t, "update_message", r, "UpdateMessage")

\* update_message, after its `.await`
update_message_resumed(t, resp) ==
    /\ Resumed(t, "update_message", resp)
    /\ IF ~AwaitOk(resp)
       THEN ReturnHttpError(t, resp)
       ELSE IF frame[t].req.verb = "create_response"
            THEN /\ set_responded(TRUE)
                 /\ Return(t, resp, OkNone)
                 /\ UNCHANGED last_message_id
            ELSE /\ Return(t, resp, OkSome(MessageId(t)))
                 /\ UNCHANGED <<responded, last_message_id>>

(* ------------------------- autocomplete, modal ------------------------- *)

\* Mutant of autocomplete: `responded` is not checked.
autocomplete_unchecked(t) ==
    /\ Idle(t)
    /\ Send(t, "autocomplete", NoArgs,
            [verb |-> "create_response",
             kind |-> "ApplicationCommandAutocompleteResult", data |-> "choices"])

\* autocomplete, up to its `.await`
autocomplete(t) ==
    /\ Idle(t)
    /\ IF self_responded
       THEN ReturnEarly(t, "autocomplete", NoArgs, ErrAlreadyResponded)
       ELSE Send(t, "autocomplete", NoArgs,
                 [verb |-> "create_response",
                  kind |-> "ApplicationCommandAutocompleteResult", data |-> "choices"])

\* autocomplete, after its `.await`
autocomplete_resumed(t, resp) ==
    /\ Resumed(t, "autocomplete", resp)
    /\ IF AwaitOk(resp)
       THEN /\ set_responded(TRUE)
            /\ Return(t, resp, OkUnit)
            /\ UNCHANGED last_message_id
       ELSE ReturnHttpError(t, resp)

\* modal, up to its `.await`
modal(t) ==
    /\ Idle(t)
    /\ IF self_responded
       THEN ReturnEarly(t, "modal", NoArgs, ErrAlreadyResponded)
       ELSE Send(t, "modal", NoArgs,
                 [verb |-> "create_response", kind |-> "Modal", data |-> "modal"])

\* modal, after its `.await`
modal_resumed(t, resp) ==
    /\ Resumed(t, "modal", resp)
    /\ IF AwaitOk(resp)
       THEN /\ set_responded(TRUE)
            /\ Return(t, resp, OkUnit)
            /\ UNCHANGED last_message_id
       ELSE ReturnHttpError(t, resp)

(* -------------------------- check_permissions -------------------------- *)

\* Mutant of MissingOf: every required permission is reported missing.
MissingOf_all_required(required) == required

\* let missing_permissions = required_permissions - self.app_permissions
MissingOf(required) == required \ app_permissions

\* check_permissions: synchronous, through any clone that is not inside a call
check_permissions(t, required_permissions) ==
    /\ frame[t].pc = "idle"
    /\ LET missing_permissions == MissingOf(required_permissions)
       IN  checked' =
               [called |-> TRUE, required |-> required_permissions,
                result |-> IF missing_permissions # {}
                           THEN CheckErr(UserError_MissingPermissions(Some(missing_permissions)))
                           ELSE CheckOk]
    /\ UNCHANGED <<kind, app_permissions, responded, last_message_id, frame, last,
                   ncalls, created, created_ok, succeeded, next_id, classifier,
                   error_handler, deleter>>

(* ----------------------------- classifier ------------------------------ *)

\* Mutant of http_error_from_http_err: code 50001 is not in the table.
http_error_from_http_err_no_access(http_err) ==
    IF ~http_err.general
    THEN "Unknown"
    ELSE CASE http_err.code = UnknownMessageCode -> "UnknownMessage"
           [] http_err.code = FailedDmCode -> "FailedDm"
           [] http_err.code = MissingPermissionsCode -> "MissingPermissions"
           [] http_err.code = ReactionBlockedCode -> "ReactionBlocked"
           [] OTHER -> "Unknown"

\* http_error::Error::from_http_err
http_error_from_http_err(http_err) ==
    IF ~http_err.general
    THEN "Unknown"
    ELSE CASE http_err.code = UnknownMessageCode -> "UnknownMessage"
           [] http_err.code = MissingAccessCode -> "MissingAccess"
           [] http_err.code = FailedDmCode -> "FailedDm"
           [] http_err.code = MissingPermissionsCode -> "MissingPermissions"
           [] http_err.code = ReactionBlockedCode -> "ReactionBlocked"
           [] OTHER -> "Unknown"

\* CombinedUserError::from_http_err
from_http_err(http_err) ==
    LET e == http_error_from_http_err(http_err)
    IN  CASE e \in {"UnknownMessage", "FailedDm", "ReactionBlocked"} -> Ignore
          [] e \in {"MissingPermissions", "MissingAccess"} -> MissingPermissions(None)
          [] e = "Unknown" -> Internal

\* Mutant of from_anyhow_err: an error that is a classification value gets no
\* passthrough.
from_anyhow_err_no_passthrough(e) ==
    IF e.custom # {}
    THEN Custom(Ref(e.custom))
    ELSE IF e.http # {} THEN from_http_err(Ref(e.http)) ELSE Internal

\* CombinedUserError::from_anyhow_err
from_anyhow_err(e) ==
    IF e.user # {}
    THEN Ref(e.user)
    ELSE IF e.custom # {}
         THEN Custom(Ref(e.custom))
         ELSE IF e.http # {}
              THEN from_http_err(Ref(e.http))
              ELSE Internal

\* Mutant of with_permissions: permissions already attached are kept.
with_permissions_keeps(self, permissions) ==
    IF self = MissingPermissions(None)
    THEN MissingPermissions(Some(permissions))
    ELSE self

\* CombinedUserError::with_permissions
with_permissions(self, permissions) ==
    IF self.variant = "MissingPermissions"
    THEN MissingPermissions(Some(permissions))
    ELSE self

(* ------------------ the legacy classifier (ErrorExt) ------------------- *)

\* HttpErrorExt::code: Some(code) of a GeneralApiError, else None
HttpErrorExt_code(http_err) == IF http_err.general THEN {http_err.code} ELSE {}

missing_permissions(http_err) == HttpErrorExt_code(http_err) = {50013}

\* Mutant of missing_access: the predicate tests another code.
missing_access_other_code(http_err) == HttpErrorExt_code(http_err) = {40001}

missing_access(http_err) == HttpErrorExt_code(http_err) = {50001}

unknown_message(http_err) == HttpErrorExt_code(http_err) = {10008}

failed_dm(http_err) == HttpErrorExt_code(http_err) = {50007}

reaction_blocked(http_err) == HttpErrorExt_code(http_err) = {90001}

\* ErrorExt::user for anyhow::Error: Option<UserError>
ErrorExt_user(e) ==
    IF e.legacy # {}
    THEN e.legacy
    ELSE IF e.http # {}
         THEN LET http_err == Ref(e.http)
              IN  IF unknown_message(http_err) \/ failed_dm(http_err)
                        \/ reaction_blocked(http_err)
                  THEN {UserError_Ignore}
                  ELSE IF missing_permissions(http_err) \/ missing_access(http_err)
                       THEN {UserError_MissingPermissions(None)}
                       ELSE {}
         ELSE {}

\* Mutant of ErrorExt_with_permissions: permissions are attached only to an
\* error that is a UserError value.
ErrorExt_with_permissions_value_only(e, required_permissions) ==
    IF e.legacy # {} /\ Ref(e.legacy).variant = "MissingPermissions"
    THEN anyhow_from_user_error(UserError_MissingPermissions(Some(required_permissions)))
    ELSE e

\* ErrorExt::with_permissions for anyhow::Error
ErrorExt_with_permissions(e, required_permissions) ==
    IF ErrorExt_user(e) # {} /\ Ref(ErrorExt_user(e)).variant = "MissingPermissions"
    THEN anyhow_from_user_error(UserError_MissingPermissions(Some(required_permissions)))
    ELSE e

\* ErrorExt::internal::<Custom> for anyhow::Error: Option<Self>
ErrorExt_internal(e, custom_type) ==
    IF ErrorExt_user(e) = {} /\ downcast_ref_custom(e, custom_type) = {}
    THEN {e}
    ELSE {}

\* ErrorExt::internal_no_custom
ErrorExt_internal_no_custom(e) == ErrorExt_internal(e, "NoCustomError")

\* Mutant of ErrorExt_ignore: only a UserError::Ignore value is ignored.
ErrorExt_ignore_value_only(e) == e.legacy = {UserError_Ignore}

\* ErrorExt::ignore
ErrorExt_ignore(e) == ErrorExt_user(e) = {UserError_Ignore}

\* The caller decorates the error it holds: err.with_permissions(p)
WithPermissionsLegacy(permissions) ==
    /\ applied.fn # "none"
    /\ err' = ErrorExt_with_permissions(err, permissions)
    /\ applied' = [fn |-> "ErrorExt::with_permissions", wrapped |-> FALSE,
                   permissions |-> permissions]
    /\ UNCHANGED <<kind, app_permissions, responded, last_message_id, frame, last,
                   ncalls, created, created_ok, succeeded, next_id, checked, user_err,
                   error_handler, deleter>>

\* The caller classifies an error: from_anyhow_err(&e)
Classify(e) ==
    /\ err' = e
    /\ user_err' = from_anyhow_err(e)
    /\ applied' = [fn |-> "from_anyhow_err", wrapped |-> FALSE, permissions |-> {}]
    /\ UNCHANGED <<kind, app_permissions, responded, last_message_id, frame, last,
                   ncalls, created, created_ok, succeeded, next_id, checked,
                   error_handler, deleter>>

\* The caller wraps the classification it holds as an error and classifies
\* that: from_anyhow_err(&anyhow!(user_err))
ClassifyAgain ==
    /\ applied.fn # "none"
    /\ err' = anyhow_new(user_err)
    /\ user_err' = from_anyhow_err(anyhow_new(user_err))
    /\ applied' = [fn |-> "from_anyhow_err", wrapped |-> TRUE, permissions |-> {}]
    /\ UNCHANGED <<kind, app_permissions, responded, last_message_id, frame, last,
                   ncalls, created, created_ok, succeeded, next_id, checked,
                   error_handler, deleter>>

\* The caller decorates the classification it holds: user_err.with_permissions(p)
WithPermissions(permissions) ==
    /\ applied.fn # "none"
    /\ user_err' = with_permissions(user_err, permissions)
    /\ applied' = [fn |-> "with_permissions", wrapped |-> FALSE, permissions |-> permissions]
    /\ UNCHANGED <<kind, app_permissions, responded, last_message_id, frame, last,
                   ncalls, created, created_ok, succeeded, next_id, checked, err,
                   error_handler, deleter>>

(* ---------------------------- handle_error ----------------------------- *)

\* The errors handle_error is given: one of each shape ErrorExt tells apart (a
\* UserError value or none, a Custom value or none, an HTTP error of either
\* user class, of no class, or none).
HandledErrors ==
    [user : {{}},
     custom : {{}, {"TooSlay"}},
     legacy : {{}, {UserError_Ignore}, {UserError_MissingPermissions(None)}},
     http : {{}, {[general |-> TRUE, code |-> UnknownMessageCode]},
             {[general |-> TRUE, code |-> MissingPermissionsCode]},
             {[general |-> TRUE, code |-> 0]}}]

\* anyhow::Error::new(err) for the crate::Error a response call returned: its
\* type is crate::Error, so no downcast_ref to UserError, Custom or
\* twilight_http::Error finds anything in it, whatever the variant of `err`.
anyhow_Error_new(result) == MessageError

\* Bot::log(message): the message goes to the webhook, the file and the
\* standard output as configured; a failure to log is appended, never returned.
log(message) == {message}

\* `if error.ignore() { return; }`
handle_error_ignored(t, fn, custom_type, r, e) ==
    /\ ReturnEarly(t, fn, ReplyArgs(r), OkUnit)
    /\ handling' = [handling EXCEPT ![t] =
                       [on |-> TRUE, fn |-> fn, custom_type |-> custom_type, error |-> e]]
    /\ logged' = {}
    /\ UNCHANGED deleter

\* handle_error::<Custom>, up to the `.await` of its reply
handle_error(t, custom_type, r, e) ==
    /\ Idle(t)
    /\ ~handling[t].on
    /\ IF ErrorExt_ignore(e)
       THEN handle_error_ignored(t, "handle_error", custom_type, r, e)
       ELSE /\ IF kind \in {"MessageComponent", "ModalSubmit"}
               THEN update_message(t, r)
               ELSE reply(t, r)
            /\ handling' = [handling EXCEPT ![t] =
                               [on |-> TRUE, fn |-> "handle_error",
                                custom_type |-> custom_type, error |-> e]]
            /\ logged' = {}
            /\ UNCHANGED deleter

\* handle_error_no_custom, up to the `.await` of its reply
handle_error_no_custom(t, r, e) ==
    /\ Idle(t)
    /\ ~handling[t].on
    /\ IF ErrorExt_ignore(e)
       THEN handle_error_ignored(t, "handle_error_no_custom", "NoCustomError", r, e)
       ELSE /\ reply(t, r)
            /\ handling' = [handling EXCEPT ![t] =
                               [on |-> TRUE, fn |-> "handle_error_no_custom",
                                custom_type |-> "NoCustomError", error |-> e]]
            /\ logged' = {}
            /\ UNCHANGED deleter

\* The two `if let` statements after the reply: what is given to Bot::log when
\* the reply returned `reply_res` and the error handled is `error`.
LogCalls(reply_res, error, custom_type) ==
    (IF ~IsOk(reply_res) /\ ErrorExt_internal(anyhow_Error_new(reply_res), custom_type) # {}
     THEN log("reply_err") ELSE {})
    \cup (IF ErrorExt_internal(error, custom_type) # {} THEN log("internal_err") ELSE {})

\* The handler returns to its caller.
handled(t, reply_res) ==
    /\ logged' = LogCalls(reply_res, handling[t].error, handling[t].custom_type)
    /\ handling' = [handling EXCEPT ![t] = NotHandling]
    /\ UNCHANGED deleter

\* handle_error and handle_error_no_custom, after the `.await` of the reply
handle_error_resumed(t, resp) ==
    /\ handling[t].on
    /\ \/ reply_resumed(t, resp)
       \/ update_message_resumed(t, resp)
    /\ handled(t, last'.result)

\* handle_error and handle_error_no_custom when nothing was sent: the error
\* was ignored, or the reply did not pass validation.
handle_error_returned(t) ==
    /\ handling[t].on
    /\ Returned(t)
    /\ IF frame[t].op = handling[t].fn
       THEN /\ handling' = [handling EXCEPT ![t] = NotHandling]
            /\ UNCHANGED <<logged, deleter>>
       ELSE handled(t, frame[t].result)

(* ---------------------------- report_error ----------------------------- *)

\* The errors whose classification is reported: one of each shape
\* from_anyhow_err tells apart.
ReportedErrors ==
    [user : {{}, {Ignore}, {MissingPermissions(None)}},
     custom : {{}, {"TooSlay"}},
     http : {{}, {[general |-> TRUE, code |-> FailedDmCode]},
             {[general |-> TRUE, code |-> MissingPermissionsCode]},
             {[general |-> TRUE, code |-> 0]}},
     legacy : {{}}]

\* What the collaborator may answer to create_message.
MessageResponses == HttpResponses \cup {[ok |-> FALSE, code |-> FailedDmCode]}

\* The twilight_http::Error of a failed request.
http_err_of(resp) == [general |-> TRUE, code |-> resp.code]

\* ReplyHandle::create_message, up to its `.await`: the `?` on the validation
\* of the reply's fields, then one request
create_message(t, op, r) ==
    IF r.valid
    THEN Send(t, op, ReplyArgs(r), [verb |-> "create_message", kind |-> "-", data |-> "reply"])
    ELSE ReturnEarly(t, op, ReplyArgs(r), ErrMessageValidation)

\* ReplyHandle::report_error(channel_id, error), up to the `.await` of
\* create_message; `error` is the classification the caller holds
report_error(t, r) ==
    /\ Idle(t)
    /\ applied.fn # "none"
    /\ IF user_err = Ignore
       THEN ReturnEarly(t, "report_error", ReplyArgs(r), OkNone)
       ELSE create_message(t, "report_error", r)
    /\ UNCHANGED <<error_handler, deleter>>

\* report_error, after the `.await`: the three arms of the match
report_error_resumed(t, resp) ==
    /\ Resumed(t, "report_error", resp)
    /\ IF resp.ok
       THEN Return(t, resp, OkSome(MessageId(t)))
       ELSE IF from_http_err(http_err_of(resp)) = Internal
            THEN Return(t, resp, ErrHttp(resp.code))
            ELSE Return(t, resp, HttpErrorResult(resp))
    /\ UNCHANGED <<responded, last_message_id, error_handler, deleter>>

\* report_error returns without a request: Ok(None), or the validation error
report_error_returned(t) ==
    /\ frame[t].op = "report_error"
    /\ Returned(t)
    /\ UNCHANGED <<error_handler, deleter>>

(* ---------------------------- delete_after ----------------------------- *)

\* What delete_after neither reads nor writes.
beside_deleter ==
    <<kind, app_permissions, responded, last_message_id, frame, last, ncalls, created,
      created_ok, succeeded, next_id, checked, classifier, error_handler>>

\* The verb of the request a deletion task sends.
DeleteVerb(params) ==
    CASE params = "Message" -> "delete_message"
      [] params = "Webhook" -> "delete_webhook_message"

\* Mutant of spawn_delete: the deletion is requested before the task is spawned.
spawn_delete_now(params) ==
    tasks' = Append(tasks, [call |-> Len(results) + 1, params |-> params,
                            pc |-> "request", requests |-> 1,
                            verb |-> DeleteVerb(params), answer |-> "none"])

\* spawn_delete / tokio::spawn(async move { sleep(after).await; .. }): the task
\* is created, suspended in its sleep; the caller goes on
spawn_delete(params) ==
    tasks' = Append(tasks, [call |-> Len(results) + 1, params |-> params,
                            pc |-> "sleep", requests |-> 0,
                            verb |-> "none", answer |-> "none"])

\* delete_after on a handle with DeleteParamsUnknown: the response body is
\* deserialized first (`self.model().await?`), and the message it gives tells
\* the channel and message ids
delete_after_unknown(deserialized) ==
    /\ Len(results) < MaxDeletes
    /\ IF deserialized
       THEN /\ spawn_delete("Message")
            /\ results' = Append(results, "Ok")
       ELSE /\ results' = Append(results, "DeserializeBodyError")
            /\ UNCHANGED tasks
    /\ UNCHANGED beside_deleter

\* delete_after on a handle with the ids of a message: returns self
delete_after_message ==
    /\ Len(results) < MaxDeletes
    /\ spawn_delete("Message")
    /\ results' = Append(results, "Ok")
    /\ UNCHANGED beside_deleter

\* delete_after on a handle with the ids of a webhook message: returns self
delete_after_webhook ==
    /\ Len(results) < MaxDeletes
    /\ spawn_delete("Webhook")
    /\ results' = Append(results, "Ok")
    /\ UNCHANGED beside_deleter

\* The sleep of task i is over: the task sends its delete request
sleep_elapsed(i) ==
    /\ i \in 1..Len(tasks)
    /\ tasks[i].pc = "sleep"
    /\ tasks' = [tasks EXCEPT ![i].pc = "request", ![i].requests = @ + 1,
                              ![i].verb = DeleteVerb(tasks[i].params)]
    /\ UNCHANGED <<results, beside_deleter>>

\* The collaborator answers the delete request of task i: `let _delete_res`,
\* the task ends whatever the answer
delete_answered(i, ok) ==
    /\ i \in 1..Len(tasks)
    /\ tasks[i].pc = "request"
    /\ tasks' = [tasks EXCEPT ![i].pc = "done",
                              ![i].answer = IF ok THEN "ok" ELSE "failed"]
    /\ UNCHANGED <<results, beside_deleter>>

(* --------------------------- specifications ---------------------------- *)

\* One step of clone t.
Response(t) ==
    \/ \E v \in DeferVisibility, b \in DeferBehavior : defer_with_behavior(t, v, b)
    \/ \E resp \in HttpResponses : defer_with_behavior_resumed(t, resp)
    \/ \E v \in DeferVisibility : defer(t, v)
    \/ defer_update_message(t)
    \/ \E resp \in HttpResponses : defer_update_message_resumed(t, resp)
    \/ \E r \in Reply : reply(t, r)
    \/ \E resp \in HttpResponses : reply_resumed(t, resp)
    \/ \E r \in Reply : update_message(t, r)
    \/ \E resp \in HttpResponses : update_message_resumed(t, resp)
    \/ autocomplete(t)
    \/ \E resp \in HttpResponses : autocomplete_resumed(t, resp)
    \/ modal(t)
    \/ \E resp \in HttpResponses : modal_resumed(t, resp)
    \/ Returned(t)

\* A call through clone t, or the continuation of one.
Step(t) == ~handling[t].on /\ Response(t) /\ UNCHANGED <<error_handler, deleter>>

\* Clones run concurrently: any clone may take the next step.
Next == \E t \in Clones : Step(t)

Spec == Init /\ [][Next]_vars

\* No other clone is inside a call.
Alone(t) == \A u \in Clones \ {t} : frame[u].pc = "idle"

\* Calls made one after the other: a call starts only when no call is running.
SeqNext == \E t \in Clones : Alone(t) /\ Step(t)

SeqSpec == Init /\ [][SeqNext]_vars

\* A handle built for any interaction, with or without app permissions.
PermInit == Constructed(Interaction)

\* Response calls made one after the other, and permission checks between them.
PermNext ==
    \/ SeqNext
    \/ \E t \in Clones : \E required \in Permissions : check_permissions(t, required)

PermSpec == PermInit /\ [][PermNext]_vars

\* The classifier applied to errors of every shape, and to its own results.
\* from_anyhow_err never asks an error for a UserError, so the errors it is
\* applied to are those of every shape in the three types it does ask for.
ClassifyNext ==
    \/ \E e \in {x \in AnyhowError : x.legacy = {}} : Classify(e)
    \/ ClassifyAgain
    \/ \E p \in Permissions : WithPermissions(p)

ClassifySpec == Init /\ [][ClassifyNext]_vars

\* Errors handled one after the other through the clones of one handle.
HandleNext ==
    \E t \in Clones :
        /\ Alone(t)
        /\ \/ \E c \in CustomTypes, r \in Reply, e \in HandledErrors : handle_error(t, c, r, e)
           \/ \E r \in Reply, e \in HandledErrors : handle_error_no_custom(t, r, e)
           \/ \E resp \in HttpResponses : handle_error_resumed(t, resp)
           \/ handle_error_returned(t)

HandleSpec == Init /\ [][HandleNext]_vars

\* Errors classified and reported one after the other.
ReportNext ==
    \/ \E e \in ReportedErrors : (\A t \in Clones : frame[t].pc = "idle") /\ Classify(e)
    \/ \E t \in Clones, r \in Reply : Alone(t) /\ report_error(t, r)
    \/ \E t \in Clones, resp \in MessageResponses : report_error_resumed(t, resp)
    \/ \E t \in Clones : report_error_returned(t)

ReportSpec == Init /\ [][ReportNext]_vars

\* delete_after called on response handles of the three kinds, and the tasks
\* it spawned run by the runtime.
DeleteNext ==
    \/ \E deserialized \in BOOLEAN : delete_after_unknown(deserialized)
    \/ delete_after_message
    \/ delete_after_webhook
    \/ \E i \in 1..MaxDeletes : sleep_elapsed(i)
    \/ \E i \in 1..MaxDeletes, ok \in BOOLEAN : delete_answered(i, ok)

DeleteSpec == Init /\ [][DeleteNext]_vars

\* The runtime keeps running: a spawned task is polled, and a sleep whose
\* duration has passed wakes its task.
DeleteFairSpec == DeleteSpec /\ \A i \in 1..MaxDeletes : WF_vars(sleep_elapsed(i))

\* The legacy path applied to errors of every shape in the types ErrorExt asks
\* for (UserError, Custom, twilight_http::Error), and to its own results.
LegacyNext ==
    \/ \E e \in {x \in AnyhowError : x.user = {}} : Classify(e)
    \/ \E p \in Permissions : WithPermissionsLegacy(p)

LegacySpec == Init /\ [][LegacyNext]_vars

(* ----------------------------- properties ------------------------------ *)

\* Clone t starts a call in this step.
Calls(t) == frame[t].pc = "idle" /\ frame'[t].pc # "idle"

\* The call of clone t returns in this step.
Returns(t) == frame[t].pc # "idle" /\ frame'[t].pc = "idle"

\* The call of clone t is resumed by the collaborator's answer and returns.
Completes(t) == frame[t].pc = "await" /\ frame'[t].pc = "idle"

\* Clone t is inside call `op`, suspended on a request with verb `verb`.
Awaits(t, op, verb) ==
    frame[t].pc = "await" /\ frame[t].op = op /\ frame[t].req.verb = verb

\* Clone t is inside call `op`, which returns `result` without having sent anything.
Rejected(t, op, result) ==
    frame[t].pc = "early" /\ frame[t].op = op /\ frame[t].result = result

FollowupVerbs == {"create_followup", "update_response", "update_followup"}

\* C1: state monotonicity.  Once a call has returned Ok, every call of
\* autocomplete or modal started later returns AlreadyResponded without sending
\* anything, and every reply started later sends a followup/update request (or
\* fails validation), never create_response.
C1_StateMonotonicity ==
    [][\A t \in Clones :
          (succeeded /\ Calls(t)) =>
              /\ frame'[t].op \in {"autocomplete", "modal"} =>
                     /\ frame'[t].pc = "early"
                     /\ frame'[t].result = ErrAlreadyResponded
              /\ frame'[t].op = "reply" =>
                     /\ frame'[t].req.verb # "create_response"
                     /\ frame'[t].pc = "await" => frame'[t].req.verb \in FollowupVerbs]_vars

\* After a success, one clone's autocomplete is rejected while another clone's
\* reply is in flight as a followup.
C1_Witness ==
    /\ succeeded
    /\ \E t, u \in Clones :
          /\ Rejected(t, "autocomplete", ErrAlreadyResponded)
          /\ Awaits(u, "reply", "create_followup")

\* C2: two concurrent reply calls through clones of one handle never both take
\* the initial-response branch (never both have create_response in flight).
C2_OneInitialReply ==
    \A t, u \in Clones :
        t # u => ~(Awaits(t, "reply", "create_response") /\ Awaits(u, "reply", "create_response"))

\* C3 as stated: at most one create_response request is ever sent, failed
\* attempts included.
C3_AtMostOneCreateResponse == created <= 1

\* C3 amended: over calls made one after the other, the collaborator accepts at
\* most one create_response, and once it has accepted one no later call sends
\* a create_response (a failed attempt leaves the handle NotResponded, so the
\* attempt after it is an initial response again).
C3_AtMostOneAccepted ==
    /\ created_ok <= 1
    /\ created_ok = 1 =>
           \A t \in Clones : frame[t].pc = "await" => frame[t].req.verb # "create_response"

\* A failed initial response, then an accepted one, then a followup in flight.
C3_Witness ==
    /\ created = 2
    /\ created_ok = 1
    /\ \E t \in Clones : frame[t].pc = "await" /\ frame[t].req.verb \in FollowupVerbs

\* C4: when the collaborator's answer is an error, the call returns that error
\* as Error::Http and writes neither cell; a cell is written only in a step in
\* which a call resumes with a successful answer.
C4_FailureLeavesState ==
    [][/\ \A t \in Clones :
            (Completes(t) /\ ~last'.resp.ok) =>
                /\ last'.result = ErrHttp(last'.resp.code)
                /\ responded' = responded
                /\ last_message_id' = last_message_id
       /\ (responded' # responded \/ last_message_id' # last_message_id) =>
            \E t \in Clones : Completes(t) /\ last'.resp.ok]_vars

\* A first response has failed and returned Error::Http; the handle is still
\* NotResponded.
C4_Witness ==
    /\ last.result.tag = "Http"
    /\ created >= 1
    /\ created_ok = 0
    /\ ~responded
    /\ last_message_id = 0

\* C5: autocomplete or modal called on a Responded handle returns
\* AlreadyResponded, sends nothing and leaves both cells unchanged.
C5_AlreadyResponded ==
    [][\A t \in Clones :
          /\ (Calls(t) /\ responded /\ frame'[t].op \in {"autocomplete", "modal"}) =>
                /\ frame'[t].pc = "early"
                /\ frame'[t].result = ErrAlreadyResponded
                /\ frame'[t].req = NoRequest
                /\ created' = created
                /\ responded' = responded
                /\ last_message_id' = last_message_id
          /\ (Returns(t) /\ frame[t].pc = "early") =>
                /\ last'.result = frame[t].result
                /\ created' = created
                /\ responded' = responded
                /\ last_message_id' = last_message_id]_vars

\* A modal call is being rejected on a Responded handle.
C5_Witness ==
    /\ responded
    /\ \E t \in Clones : Rejected(t, "modal", ErrAlreadyResponded)

\* C6: defer_with_behavior on a Responded handle returns AlreadyResponded and
\* sends nothing; on a NotResponded handle it sends exactly one create_response
\* and, when that succeeds, sets responded and returns Ok(()).
C6_Defer ==
    [][\A t \in Clones :
          /\ (Calls(t) /\ frame'[t].op = "defer_with_behavior") =>
                IF responded
                THEN /\ frame'[t].pc = "early"
                     /\ frame'[t].result = ErrAlreadyResponded
                     /\ created' = created
                ELSE /\ frame'[t].pc = "await"
                     /\ frame'[t].req.verb = "create_response"
                     /\ created' = created + 1
          /\ (Returns(t) /\ frame[t].op = "defer_with_behavior") =>
                /\ created' = created
                /\ (Completes(t) /\ last'.resp.ok) => (responded' /\ last'.result = OkUnit)]_vars

\* One defer is in flight from NotResponded while a later defer is rejected.
C6_Witness ==
    \E t, u \in Clones :
        /\ Awaits(t, "defer_with_behavior", "create_response")
        /\ Rejected(u, "defer_with_behavior", ErrAlreadyResponded)

\* C7: the request of defer_with_behavior has kind DeferredUpdateMessage exactly
\* for a MessageComponent interaction deferred with behavior Update, and
\* DeferredChannelMessageWithSource in every other case; it carries the
\* EPHEMERAL flag exactly when the visibility is Ephemeral.
C7_DeferKind ==
    \A t \in Clones :
        (frame[t].pc = "await" /\ frame[t].op = "defer_with_behavior") =>
            /\ frame[t].req.verb = "create_response"
            /\ frame[t].req.kind =
                   (IF kind = "MessageComponent" /\ frame[t].args.behavior = "Update"
                    THEN "DeferredUpdateMessage"
                    ELSE "DeferredChannelMessageWithSource")
            /\ (frame[t].req.data = "EPHEMERAL") <=> (frame[t].args.visibility = "Ephemeral")

\* A modal-submit interaction is deferred with behavior Update, ephemerally.
C7_Witness ==
    /\ kind = "ModalSubmit"
    /\ \E t \in Clones :
          /\ Awaits(t, "defer_with_behavior", "create_response")
          /\ frame[t].args = DeferArgs("Ephemeral", "Update")

\* C8: reply on a NotResponded handle sends create_response with kind
\* UpdateMessage when update_last is set and the interaction is a
\* MessageComponent, with kind ChannelMessageWithSource otherwise; on success
\* it sets responded and returns Ok(None).
C8_ReplyInitialKind ==
    [][\A t \in Clones :
          /\ (Calls(t) /\ ~responded /\ frame'[t].op = "reply") =>
                /\ frame'[t].pc = "await"
                /\ frame'[t].req.verb = "create_response"
                /\ frame'[t].req.kind =
                       (IF frame'[t].args.update_last /\ kind = "MessageComponent"
                        THEN "UpdateMessage"
                        ELSE "ChannelMessageWithSource")
          /\ (Completes(t) /\ Awaits(t, "reply", "create_response") /\ last'.resp.ok) =>
                (responded' /\ last'.result = OkNone)]_vars

\* C9: reply on a Responded handle with update_last false sends
\* create_followup, stores the id of the created message in last_message_id and
\* returns Ok(Some(message)).
C9_FollowupStoresId ==
    [][\A t \in Clones :
          /\ (Calls(t) /\ responded /\ frame'[t].op = "reply"
                /\ ~frame'[t].args.update_last /\ frame'[t].args.valid) =>
                (frame'[t].pc = "await" /\ frame'[t].req.verb = "create_followup")
          /\ (Completes(t) /\ Awaits(t, "reply", "create_followup")
                /\ ~frame[t].args.update_last /\ last'.resp.ok) =>
                /\ last'.result.tag = "OkSome"
                /\ last'.result.x # 0
                /\ last_message_id' = last'.result.x]_vars

\* C10: reply on a Responded handle with update_last true and last_message_id
\* unset sends update_response (not create_followup), returns Ok(Some(message))
\* and sets last_message_id.
C10_UpdateOriginal ==
    [][\A t \in Clones :
          /\ (Calls(t) /\ responded /\ last_message_id = 0 /\ frame'[t].op = "reply"
                /\ frame'[t].args.update_last /\ frame'[t].args.valid) =>
                (frame'[t].pc = "await" /\ frame'[t].req.verb = "update_response")
          /\ (Completes(t) /\ Awaits(t, "reply", "update_response") /\ last'.resp.ok) =>
                /\ last'.result.tag = "OkSome"
                /\ last_message_id' = last'.result.x
                /\ last_message_id' # 0]_vars

\* C11: reply on a Responded handle with update_last true, called when the
\* followup a reply created is the last message sent (the message last_message_id
\* is to identify), sends update_followup, creates no new message and returns
\* Ok(None).
C11_UpdateFollowup ==
    [][\A t \in Clones :
          /\ (Calls(t) /\ responded /\ last.result.tag = "OkSome"
                /\ last.result.x # OriginalMessageId /\ frame'[t].op = "reply"
                /\ frame'[t].args.update_last /\ frame'[t].args.valid) =>
                (frame'[t].pc = "await" /\ frame'[t].req.verb = "update_followup")
          /\ (Completes(t) /\ Awaits(t, "reply", "update_followup") /\ last'.resp.ok) =>
                (last'.result = OkNone /\ next_id' = next_id)]_vars

\* C12: check_permissions(required) on a handle with app_permissions R returns
\* Err(MissingPermissions(Some(required - R))) when required - R is not empty
\* and Ok(()) when it is; it returns Ok(()) for every `required` when the
\* interaction carried no app permissions; it sends nothing and writes no cell
\* of the handle.
C12_CheckPermissions ==
    [][checked' # checked =>
          /\ checked'.called
          /\ checked'.result =
                 (IF checked'.required \ app_permissions # {}
                  THEN CheckErr(UserError_MissingPermissions(
                                    Some(checked'.required \ app_permissions)))
                  ELSE CheckOk)
          /\ app_permissions = Permissions_all => checked'.result = CheckOk
          /\ UNCHANGED <<kind, app_permissions, responded, last_message_id, frame,
                         created, created_ok, ncalls, last>>]_vars

\* On a Responded handle that has SEND_MESSAGES only, a check for both flags
\* has reported MANAGE_MESSAGES missing.
C12_Witness ==
    /\ responded
    /\ app_permissions = {"SEND_MESSAGES"}
    /\ checked.called
    /\ checked.required = Permissions_all
    /\ checked.result = CheckErr(UserError_MissingPermissions(Some({"MANAGE_MESSAGES"})))

\* C13: from_anyhow_err returns (1) the classification value the error is, if
\* it is one; (2) otherwise the classification of its HTTP code, if it is an
\* HTTP error; (3) otherwise Custom, if it is of the custom type; (4) otherwise
\* Internal.  An error that is both an HTTP error and of the custom type is
\* classified by its code.
C13_PriorityOrder ==
    (applied.fn = "from_anyhow_err") =>
        user_err =
            (IF err.user # {}
             THEN Ref(err.user)
             ELSE IF err.http # {}
                  THEN from_http_err(Ref(err.http))
                  ELSE IF err.custom # {}
                       THEN Custom(Ref(err.custom))
                       ELSE Internal)

\* C14: passthrough is idempotent.  from_anyhow_err applied to a classification
\* value wrapped as an error returns that value, whichever of
\* MissingPermissions(None), MissingPermissions(Some(P)), Custom(c), Internal,
\* Ignore it is; so classifying the wrapped result of a classification returns
\* the same result.
C14_PassthroughIdempotent ==
    [][(applied'.fn = "from_anyhow_err") =>
          /\ \A v \in CombinedUserError : (err' = anyhow_new(v)) => (user_err' = v)
          /\ applied'.wrapped => (err' = anyhow_new(user_err) /\ user_err' = user_err)]_vars

\* A MissingPermissions(Some(P)) that with_permissions produced has been
\* wrapped and classified again, and came back as it was.
C14_Witness ==
    /\ applied.fn = "from_anyhow_err"
    /\ applied.wrapped
    /\ err = anyhow_new(MissingPermissions(Some({"SEND_MESSAGES"})))
    /\ user_err = MissingPermissions(Some({"SEND_MESSAGES"}))

\* The error is a platform HTTP error and nothing else.
HttpOnly(e) == e.user = {} /\ e.custom = {} /\ e.http # {}

\* C15: the code table.  A platform HTTP error is classified Ignore for codes
\* 10008, 50007 and 90001, MissingPermissions(None) for 50001 and 50013, and
\* Internal for every other code and when it carries no general API error code.
C15_CodeTable ==
    (applied.fn = "from_anyhow_err" /\ HttpOnly(err)) =>
        LET h == Ref(err.http)
        IN  user_err =
                (IF h.general /\ h.code \in {10008, 50007, 90001}
                 THEN Ignore
                 ELSE IF h.general /\ h.code \in {50001, 50013}
                      THEN MissingPermissions(None)
                      ELSE Internal)

\* An HTTP error with code 50001 has been classified MissingPermissions(None).
C15_Witness ==
    /\ applied.fn = "from_anyhow_err"
    /\ HttpOnly(err)
    /\ Ref(err.http) = [general |-> TRUE, code |-> MissingAccessCode]
    /\ user_err = MissingPermissions(None)

\* C16: with_permissions(c, P) returns c for every c that is Custom, Internal or
\* Ignore, and MissingPermissions(Some(P)) for c = MissingPermissions(x),
\* whatever x was.
C16_WithPermissions ==
    [][(applied'.fn = "with_permissions") =>
          /\ user_err' \in CombinedUserError
          /\ user_err' =
                 (IF user_err.variant \in {"Custom", "Internal", "Ignore"}
                  THEN user_err
                  ELSE MissingPermissions(Some(applied'.permissions)))]_vars

\* A MissingPermissions that carried {SEND_MESSAGES} has been decorated with
\* {MANAGE_MESSAGES} and carries that now.
C16_Witness ==
    /\ applied.fn = "with_permissions"
    /\ applied.permissions = {"MANAGE_MESSAGES"}
    /\ err.user = {MissingPermissions(Some({"SEND_MESSAGES"}))}
    /\ user_err = MissingPermissions(Some({"MANAGE_MESSAGES"}))

\* C17: the classifier is total.  For every error it returns one of Ignore,
\* MissingPermissions, Custom, Internal; an error that is neither a
\* classification value, nor of the custom type, nor an HTTP error is Internal.
C17_Total ==
    (applied.fn = "from_anyhow_err") =>
        /\ user_err \in CombinedUserError
        /\ user_err.variant \in {"Ignore", "MissingPermissions", "Custom", "Internal"}
        /\ (err.user = {} /\ err.custom = {} /\ err.http = {}) =>
               user_err.variant = "Internal"

\* A plain message error has been classified Internal.
C17_Witness ==
    /\ applied.fn = "from_anyhow_err"
    /\ ~applied.wrapped
    /\ err = MessageError
    /\ user_err = Internal

\* C18: the clones share one responded flag.  The store a successful response
\* makes through one clone is seen by every read made later through any clone:
\* the flag stays set, a later autocomplete, modal or defer through any clone
\* returns AlreadyResponded, and a later reply through any clone is a followup.
C18_ClonesShareResponded ==
    [][/\ \A t \in Clones :
            (Completes(t) /\ frame[t].req.verb = "create_response" /\ last'.resp.ok) =>
                responded'
       /\ responded => responded'
       /\ \A u \in Clones :
            (Calls(u) /\ created_ok >= 1) =>
                /\ frame'[u].op \in {"autocomplete", "modal", "defer_with_behavior",
                                     "defer_update_message"} =>
                       (frame'[u].pc = "early" /\ frame'[u].result = ErrAlreadyResponded)
                /\ frame'[u].op = "reply" =>
                       (frame'[u].pc = "await" => frame'[u].req.verb = "create_followup")]_vars

\* One initial response was sent and accepted; after it two different clones
\* (so at least one that did not send it) have read the flag as set: the
\* defer of one is rejected, the reply of the other is a followup.
C18_Witness ==
    /\ created = 1
    /\ created_ok = 1
    /\ \E t, u \in Clones :
          /\ t # u
          /\ Rejected(t, "defer_with_behavior", ErrAlreadyResponded)
          /\ Awaits(u, "reply", "create_followup")

\* C19: last_message_id is set only while responded is true: it is unset at
\* construction and in every state in which the handle is NotResponded.
C19_LastMessageIdOnlyResponded ==
    /\ (last_message_id # 0) => responded
    /\ (~responded) => (last_message_id = 0)

\* Two initial responses have been tried and both failed: the handle is still
\* NotResponded and has no last message id.
C19_Witness ==
    /\ created = 2
    /\ created_ok = 0
    /\ \A t \in Clones : frame[t].pc = "idle"
    /\ ~responded
    /\ last_message_id = 0

\* C20: the tracker never classifies.  A call whose request the collaborator
\* fails with a permission error (50013, 50001) returns that error as
\* Error::Http with the code in it, and no call returns a classification
\* (Ignore, MissingPermissions, Custom, Internal).
C20_NeverClassifies ==
    [][\A t \in Clones :
          /\ (Completes(t) /\ ~last'.resp.ok /\ last'.resp.code \in {50013, 50001}) =>
                (last'.result.tag = "Http" /\ last'.result.x = last'.resp.code)
          /\ Returns(t) =>
                last'.result.tag \notin {"Ignore", "MissingPermissions", "Custom", "Internal"}]_vars

\* A call has returned Error::Http carrying the platform's code 50001.
C20_Witness ==
    /\ last.result = ErrHttp(MissingAccessCode)
    /\ last.resp = [ok |-> FALSE, code |-> MissingAccessCode]

\* C21: no operation retries.  A call hands at most one request to the
\* collaborator: exactly one when it starts, unless it is rejected with
\* AlreadyResponded or its payload fails validation, and none afterwards; when
\* the request fails the call returns the error.
C21_NoRetry ==
    [][/\ \A t \in Clones :
            /\ Calls(t) =>
                  \/ /\ frame'[t].pc = "await"
                     /\ frame'[t].req.verb # "none"
                     /\ created' = created +
                            (IF frame'[t].req.verb = "create_response" THEN 1 ELSE 0)
                  \/ /\ frame'[t].pc = "early"
                     /\ frame'[t].req = NoRequest
                     /\ frame'[t].result \in {ErrAlreadyResponded, ErrRequestValidation}
                     /\ created' = created
            /\ (frame[t].pc # "idle" /\ frame'[t] # frame[t]) => frame'[t].pc = "idle"
            /\ (Completes(t) /\ ~last'.resp.ok) => last'.result.tag = "Http"
       /\ (created' # created) => \E t \in Clones : Calls(t)]_vars

\* The only call made so far sent one initial response, which failed, and has
\* returned the error.
C21_Witness ==
    /\ ncalls = 1
    /\ created = 1
    /\ last.result.tag = "Http"
    /\ \A t \in Clones : frame[t].pc = "idle"

\* C24: the deprecated aliases send what defer_with_behavior sends.  defer(v)
\* is defer_with_behavior(v, Followup); the request of defer_update_message
\* has the response kind that defer_with_behavior(_, Update) gives on the same
\* handle (DeferredUpdateMessage for a MessageComponent interaction,
\* DeferredChannelMessageWithSource for any other).
C24_DeferAliases ==
    \A t \in Clones :
        /\ (Awaits(t, "defer_with_behavior", "create_response")
               /\ frame[t].args.behavior = "Followup") =>
               frame[t].req.kind = "DeferredChannelMessageWithSource"
        /\ Awaits(t, "defer_update_message", "create_response") =>
               frame[t].req.kind =
                   (IF kind = "MessageComponent"
                    THEN "DeferredUpdateMessage"
                    ELSE "DeferredChannelMessageWithSource")

\* C25: update_message on a NotResponded handle sends an initial response of
\* kind UpdateMessage and, when that succeeds, sets responded and returns
\* Ok(None); on a Responded handle it sends a followup request, never another
\* initial response, and on success returns the response wrapped in Some.
C25_UpdateMessage ==
    [][\A t \in Clones :
          /\ (Calls(t) /\ frame'[t].op = "update_message") =>
                IF responded
                THEN /\ frame'[t].req.verb # "create_response"
                     /\ created' = created
                     /\ frame'[t].pc = "await" => frame'[t].req.verb \in FollowupVerbs
                ELSE /\ frame'[t].pc = "await"
                     /\ frame'[t].req.verb = "create_response"
                     /\ frame'[t].req.kind = "UpdateMessage"
          /\ (Completes(t) /\ frame[t].op = "update_message" /\ last'.resp.ok) =>
                IF frame[t].req.verb = "create_response"
                THEN responded' /\ last'.result = OkNone
                ELSE /\ last'.result.tag = "OkSome"
                     /\ responded' = responded]_vars

\* An update_message made on a Responded handle has returned the message, and
\* only one initial response was ever sent.
C25_Witness ==
    /\ responded
    /\ created = 1
    /\ last.result = OkSome(OriginalMessageId)
    /\ \A t \in Clones : frame[t].pc = "idle"

\* C26: ErrorExt::with_permissions on a generic error.  When the error is a
\* UserError::MissingPermissions value (whatever it carries), or is no
\* UserError value and is an HTTP error with code 50013 or 50001, the result is
\* the error UserError::MissingPermissions(Some(P)) for the P given; any other
\* error is returned as it is.
C26_LegacyWithPermissions ==
    [][(applied'.fn = "ErrorExt::with_permissions") =>
          err' =
             (IF \/ \E o \in OptionPermissions :
                        err.legacy = {UserError_MissingPermissions(o)}
                 \/ /\ err.legacy = {}
                    /\ \E c \in {50013, 50001} : err.http = {[general |-> TRUE, code |-> c]}
              THEN [user |-> {}, custom |-> {}, http |-> {},
                    legacy |-> {UserError_MissingPermissions(Some(applied'.permissions))}]
              ELSE err)]_vars

\* An HTTP error with code 50001 has been turned into
\* UserError::MissingPermissions(Some({SEND_MESSAGES})).
C26_Witness ==
    /\ applied.fn = "ErrorExt::with_permissions"
    /\ applied.permissions = {"SEND_MESSAGES"}
    /\ user_err = MissingPermissions(None)
    /\ err = anyhow_from_user_error(UserError_MissingPermissions(Some({"SEND_MESSAGES"})))

\* C30: the two classification paths agree on every platform HTTP error.  For
\* an error that is an HTTP error and nothing else, with any code or none,
\* ErrorExt::user is Some(Ignore) exactly when from_http_err gives Ignore,
\* Some(MissingPermissions(None)) exactly when it gives
\* MissingPermissions(None), and None exactly when it gives Internal.
C30_PathsAgree ==
    (applied.fn = "from_anyhow_err" /\ HttpOnly(err) /\ err.legacy = {}) =>
        /\ (ErrorExt_user(err) = {UserError_Ignore}) <=> (user_err = Ignore)
        /\ (ErrorExt_user(err) = {UserError_MissingPermissions(None)})
               <=> (user_err = MissingPermissions(None))
        /\ (ErrorExt_user(err) = {}) <=> (user_err = Internal)

\* An HTTP error with code 50007 is Ignore on both paths.
C30_Witness ==
    /\ applied.fn = "from_anyhow_err"
    /\ err = [user |-> {}, custom |-> {}, legacy |-> {},
              http |-> {[general |-> TRUE, code |-> FailedDmCode]}]
    /\ ErrorExt_user(err) = {UserError_Ignore}
    /\ user_err = Ignore

\* The error is classified as Ignore: it is a UserError::Ignore value, or it is
\* no UserError value and is an HTTP error with code 10008, 50007 or 90001.
IgnoredError(e) ==
    \/ e.legacy = {UserError_Ignore}
    \/ /\ e.legacy = {}
       /\ \E c \in {10008, 50007, 90001} : e.http = {[general |-> TRUE, code |-> c]}

\* The error is a user error: a UserError value, or an HTTP error with one of
\* the five codes of the table.
UserClassified(e) ==
    \/ e.legacy # {}
    \/ \E c \in {10008, 50007, 90001, 50013, 50001} :
          e.http = {[general |-> TRUE, code |-> c]}

\* Clone t enters handle_error or handle_error_no_custom in this step.
Handles(t) == ~handling[t].on /\ handling'[t].on

\* The handler clone t is inside of returns in this step.
Handled(t) == handling[t].on /\ ~handling'[t].on

\* C22: handle_error and handle_error_no_custom given an error classified as
\* Ignore return early: no request is handed to the collaborator, nothing is
\* given to Bot::log, and `responded` keeps its value, from the call to the
\* return.
C22_IgnoreReturnsEarly ==
    [][\A t \in Clones :
          /\ (Handles(t) /\ IgnoredError(handling'[t].error)) =>
                /\ frame'[t].pc = "early"
                /\ frame'[t].req = NoRequest
                /\ logged' = {}
                /\ responded' = responded
                /\ created' = created
          /\ (Handled(t) /\ IgnoredError(handling[t].error)) =>
                /\ frame[t].pc = "early"
                /\ logged' = {}
                /\ responded' = responded
                /\ created' = created]_vars

\* handle_error is at its early return for an HTTP error with code 10008:
\* nothing was sent, nothing was logged.
C22_Witness ==
    \E t \in Clones :
        /\ handling[t].on
        /\ handling[t].fn = "handle_error"
        /\ handling[t].error = [user |-> {}, custom |-> {}, legacy |-> {},
                                http |-> {[general |-> TRUE, code |-> UnknownMessageCode]}]
        /\ frame[t].pc = "early"
        /\ frame[t].req = NoRequest
        /\ logged = {}
        /\ ~responded
        /\ created = 0

\* C23: handle_error given an error that is not ignored makes one reply
\* attempt, and when it returns the error was given to Bot::log exactly if it
\* is internal (no user error, no HTTP error of the table, not of the Custom
\* type), and the failure of the reply was given to Bot::log exactly if the
\* reply failed with an internal error, that is with anything but an HTTP
\* error of the table.
C23_LogsByInternalness ==
    [][\A t \in Clones :
          /\ (Handles(t) /\ handling'[t].fn = "handle_error"
                /\ ~IgnoredError(handling'[t].error)) =>
                /\ ncalls' = ncalls + 1
                /\ frame'[t].op \in {"reply", "update_message"}
          /\ (Handled(t) /\ handling[t].fn = "handle_error"
                /\ ~IgnoredError(handling[t].error)) =>
                /\ ("internal_err" \in logged') <=>
                      /\ ~UserClassified(handling[t].error)
                      /\ handling[t].custom_type = "C" => handling[t].error.custom = {}
                /\ ("reply_err" \in logged') <=>
                      /\ ~IsOk(last'.result)
                      /\ ~(/\ last'.result.tag = "Http"
                           /\ last'.result.x \in {10008, 50007, 90001, 50013, 50001})]_vars

\* C29: handle_error_no_custom and handle_error::<NoCustomError> make the same
\* call and the same log calls: whichever of the two is called, the response
\* operation it calls is update_message exactly on a MessageComponent or
\* ModalSubmit interaction and reply otherwise, and what it gives to Bot::log
\* is what the two `if let` statements give for NoCustomError.
C29_NoCustomSameAsHandleError ==
    [][\A t \in Clones :
          /\ (Handles(t) /\ handling'[t].custom_type = "NoCustomError"
                /\ frame'[t].op \in {"reply", "update_message"}) =>
                (frame'[t].op = "update_message"
                    <=> kind \in {"MessageComponent", "ModalSubmit"})
          /\ (Handled(t) /\ handling[t].custom_type = "NoCustomError"
                /\ frame[t].op \in {"reply", "update_message"}) =>
                logged' = LogCalls(last'.result, handling[t].error, "NoCustomError")]_vars

\* C27: report_error.  Given the classification Ignore it returns Ok(None)
\* and sends nothing.  Given any other classification it makes one
\* create_message attempt, returns Ok(Some(response)) when that succeeds, and
\* returns an error only when the attempt failed with an internal error: a
\* failure that is an HTTP error with a code of the table (Ignore or
\* MissingPermissions) is not returned as an error.
C27_ReportError ==
    [][\A t \in Clones :
          /\ (Calls(t) /\ frame'[t].op = "report_error") =>
                IF user_err = Ignore
                THEN /\ frame'[t].pc = "early"
                     /\ frame'[t].req = NoRequest
                     /\ frame'[t].result = OkNone
                ELSE \/ frame'[t].pc = "await" /\ frame'[t].req.verb = "create_message"
                     \/ frame'[t].pc = "early" /\ frame'[t].result = ErrMessageValidation
          /\ (Completes(t) /\ frame[t].op = "report_error") =>
                /\ last'.resp.ok => last'.result.tag = "OkSome"
                /\ ~IsOk(last'.result) =>
                      /\ ~last'.resp.ok
                      /\ last'.resp.code \notin {10008, 50007, 90001, 50013, 50001}]_vars

\* Call c of delete_after has returned.
DeleteReturned(c) == c \in 1..Len(results)

\* The deletion of call c is under way: its task sleeps.
DeletePending(c) == \E i \in 1..Len(tasks) : tasks[i].call = c /\ tasks[i].pc = "sleep"

\* Exactly one delete request has been sent for call c.
DeleteRequested(c) ==
    /\ \E i \in 1..Len(tasks) : tasks[i].call = c /\ tasks[i].requests = 1
    /\ \A i \in 1..Len(tasks) : tasks[i].call = c => tasks[i].requests = 1

\* C28 as stated: every call of delete_after gets its one delete request.  A
\* request is sent only by the task the call spawned, so each call that has
\* returned has a task that sleeps or one request sent.
C28_EveryCallDeletes ==
    \A c \in 1..MaxDeletes : DeleteReturned(c) => (DeletePending(c) \/ DeleteRequested(c))

\* C28 (amended): delete_after returns while its task is still asleep, before
\* any request of the task; each call that returned Ok has at most one delete
\* request, delete_message or delete_webhook_message by the kind of handle,
\* and gets it eventually; a call that returned an error has none; what a
\* call returned never changes afterwards, whatever the answer to the request.
C28_DeleteAfter ==
    /\ [][
           /\ (Len(results') # Len(results)) =>
                /\ Len(results') = Len(results) + 1
                /\ \A c \in 1..Len(results) : results'[c] = results[c]
                /\ \A i \in 1..Len(tasks) : tasks'[i] = tasks[i]
                /\ IF results'[Len(results')] = "Ok"
                   THEN /\ Len(tasks') = Len(tasks) + 1
                        /\ tasks'[Len(tasks')].call = Len(results')
                        /\ tasks'[Len(tasks')].pc = "sleep"
                        /\ tasks'[Len(tasks')].requests = 0
                   ELSE tasks' = tasks
           /\ (tasks' # tasks) => \A c \in 1..Len(results) : results'[c] = results[c]
           /\ \A i \in 1..Len(tasks) :
                 /\ tasks'[i].requests \in {tasks[i].requests, 1}
                 /\ (tasks'[i].requests # tasks[i].requests) =>
                       /\ tasks[i].pc = "sleep"
                       /\ tasks'[i].verb = (IF tasks[i].params = "Webhook"
                                            THEN "delete_webhook_message"
                                            ELSE "delete_message")]_vars
    /\ [](\A c \in 1..MaxDeletes :
            (DeleteReturned(c) /\ results[c] # "Ok") =>
                ~\E i \in 1..Len(tasks) : tasks[i].call = c)
    /\ \A c \in 1..MaxDeletes :
            (DeleteReturned(c) /\ results[c] = "Ok") ~> DeleteRequested(c)

\* Two calls returned Ok; the request of the first failed, the request of the
\* second, a webhook message, was sent and is not answered yet.
C28_Witness ==
    /\ results = <<"Ok", "Ok">>
    /\ Len(tasks) = 2
    /\ tasks[1].answer = "failed"
    /\ tasks[1].requests = 1
    /\ tasks[2].verb = "delete_webhook_message"
    /\ tasks[2].pc = "request"

====
